---- MODULE Spec2Model ----
(***************************************************************************)
(* Model of the VAT-aware "Open Receivables & Liabilities" report,         *)
(* generateORLReport in src/reports/orl/report.ts.                         *)
(*                                                                         *)
(* Monetary amounts are integers counting thousandths of the currency      *)
(* unit (100.00 is 100000, 0.333 is 333), so sums are the exact decimal    *)
(* sums.  A transaction object is identified by its position in `data`;    *)
(* a record's `transactions` array holds those positions.  A JavaScript    *)
(* object used as a dictionary is an insertion-ordered sequence, and       *)
(* Object.values reorders it as the language prescribes.  Grouping keys    *)
(* are strings that do not name a property of Object.prototype.            *)
(***************************************************************************)
EXTENDS Integers, Sequences, FiniteSets, TLC

VARIABLES data, pc, transactions, groupedRecords, i, vatTypesInfo,
          guestRecords, externalRecords, totals, liabilitiesColumns,
          rows, totalRow, sheet

vars == <<data, pc, transactions, groupedRecords, i, vatTypesInfo,
          guestRecords, externalRecords, totals, liabilitiesColumns,
          rows, totalRow, sheet>>

\* Longest transaction list the data source returns in the model.
MaxTx == 3

\* JavaScript `undefined`, as a cell or field value.
Undefined == "undefined"

\* Arguments of the invocation.
property == "MUC"
startDate == "2020-01-01"
endDate == "2020-01-31"

(***************************************************************************)
(* Helpers on sequences.                                                   *)
(***************************************************************************)
Range(s) == {s[n] : n \in 1..Len(s)}

BoundedSeq(S) == UNION {[1..n -> S] : n \in 0..MaxTx}

Positions(s) == [n \in 1..Len(s) |-> n]

(***************************************************************************)
(* shared.round: 2 decimals, half up (towards +infinity, as Math.round).   *)
(***************************************************************************)
round(x) == ((x + 5) \div 10) * 10

(***************************************************************************)
(* Transactions (ReportsModels["TransactionsGrossExportListItemModel"]).   *)
(***************************************************************************)
arrivalStr == "2020-01-05T15:00:00+01:00"
departureStr == "2020-01-07T11:00:00+01:00"

\* String.prototype.substr(0, 10) on the date-time strings of the model.
substr10(s) ==
  CASE s = arrivalStr -> "2020-01-05"
    [] s = departureStr -> "2020-01-07"
    [] OTHER -> s

GuestTx(id, debit, credit, amount, taxes) ==
  [referenceType |-> "Guest",
   reference |-> id,
   reservation |-> <<[id |-> id, arrival |-> arrivalStr,
                      departure |-> departureStr, status |-> "InHouse"]>>,
   debitedAccount |-> [type |-> debit],
   creditedAccount |-> [type |-> credit],
   grossAmount |-> amount,
   taxes |-> taxes]

ExternalTx(ref, debit, credit, amount, taxes) ==
  [referenceType |-> "External",
   reference |-> ref,
   reservation |-> <<>>,
   debitedAccount |-> [type |-> debit],
   creditedAccount |-> [type |-> credit],
   grossAmount |-> amount,
   taxes |-> taxes]

PropertyTx(debit, credit, amount, taxes) ==
  [referenceType |-> "Property",
   reference |-> property,
   reservation |-> <<>>,
   debitedAccount |-> [type |-> debit],
   creditedAccount |-> [type |-> credit],
   grossAmount |-> amount,
   taxes |-> taxes]

RefTx(refType, id, debit, credit, amount, taxes) ==
  IF refType = "Guest" THEN GuestTx(id, debit, credit, amount, taxes)
  ELSE ExternalTx(id, debit, credit, amount, taxes)

TaxEntry(type, percent) == [type |-> type, percent |-> percent]

(***************************************************************************)
(* getRecordId, createRecordForTransaction, getVatTypeKey,                 *)
(* createHyperLinkForRecord.                                               *)
(***************************************************************************)
getRecordId(transaction) ==
  IF transaction.referenceType = "Guest"
  THEN transaction.reservation[1].id
  ELSE transaction.reference

\* The record made for the transaction at position idx of d.  The default
\* branch (throw) is unreachable behind the reference-type filter.
createRecordForTransaction(d, idx) ==
  IF d[idx].referenceType = "Guest"
  THEN [id |-> d[idx].reservation[1].id,
        type |-> "Guest",
        arrival |-> substr10(d[idx].reservation[1].arrival),
        departure |-> substr10(d[idx].reservation[1].departure),
        status |-> d[idx].reservation[1].status,
        transactions |-> <<idx>>,
        receivables |-> 0,
        liabilities |-> [k \in {"total"} |-> 0]]
  ELSE [id |-> d[idx].reference,
        type |-> "External",
        transactions |-> <<idx>>,
        receivables |-> 0,
        liabilities |-> [k \in {"total"} |-> 0]]

\* vatOrTaxInfo is <<>> for undefined, <<tax>> otherwise.
getVatTypeKey(vatOrTaxInfo) ==
  IF vatOrTaxInfo # <<>> /\ vatOrTaxInfo[1].type # "Without"
  THEN vatOrTaxInfo[1].type \o "-" \o ToString(vatOrTaxInfo[1].percent)
  ELSE "Without"

createHyperLinkForRecord(propertyId, r) ==
  IF r.type = "Guest"
  THEN "=HYPERLINK(\"https://app.apaleo.com/" \o propertyId
         \o "/reservations/" \o r.id \o "/folio\"; \"" \o r.id \o "\")"
  ELSE "=HYPERLINK(\"https://app.apaleo.com/" \o propertyId
         \o "/finance/folios/" \o r.id \o "/general\"; \"" \o r.id \o "\")"

\* Reading a property that the object may lack.
Field(r, name) == IF name \in DOMAIN r THEN r[name] ELSE Undefined

(***************************************************************************)
(* Transaction Grouper: the filter, the reduce and Object.values.          *)
(***************************************************************************)
IsReported(t) == t.referenceType = "Guest" \/ t.referenceType = "External"

FilterTransactions(d) ==
  LET Keep(n) == IsReported(d[n]) IN SelectSeq(Positions(d), Keep)

\* groups[groupId]: the position of the entry in the dictionary, 0 if none.
GroupIndex(groups, groupId) ==
  IF \E g \in 1..Len(groups) : groups[g].id = groupId
  THEN CHOOSE g \in 1..Len(groups) : groups[g].id = groupId
  ELSE 0

\* The reduce callback with the existing group's list replaced instead of
\* extended.
ReducerOverwrite(groups, d, idx) ==
  LET groupId == getRecordId(d[idx])
      g == GroupIndex(groups, groupId)
  IN IF g = 0
     THEN Append(groups, createRecordForTransaction(d, idx))
     ELSE [groups EXCEPT ![g].transactions = <<idx>>]

\* The reduce callback.
Reducer(groups, d, idx) ==
  LET groupId == getRecordId(d[idx])
      g == GroupIndex(groups, groupId)
  IN IF g = 0
     THEN Append(groups, createRecordForTransaction(d, idx))
     ELSE [groups EXCEPT ![g].transactions = Append(@, idx)]

RECURSIVE Reduce(_, _, _)
Reduce(d, txs, groups) ==
  IF txs = <<>> THEN groups
  ELSE Reduce(d, Tail(txs), Reducer(groups, d, Head(txs)))

\* The array index a property name denotes (canonical numeric string), or
\* -1 when it is an ordinary string key.
ArrayIndex(id) ==
  CASE id = "7" -> 7
    [] id = "42" -> 42
    [] OTHER -> -1

\* Object.values: integer-like keys in ascending numeric order first, then
\* the other keys in insertion order.
ObjectValues(groups) ==
  LET N == Len(groups)
      Ints == {p \in 1..N : ArrayIndex(groups[p].id) >= 0}
      Pos(p) ==
        IF p \in Ints
        THEN 1 + Cardinality({q \in Ints :
                 ArrayIndex(groups[q].id) < ArrayIndex(groups[p].id)})
        ELSE Cardinality(Ints) + 1
               + Cardinality({q \in (1..N) \ Ints : q < p})
  IN [n \in 1..N |-> groups[CHOOSE p \in 1..N : Pos(p) = n]]

GroupRecords(d) == ObjectValues(Reduce(d, FilterTransactions(d), <<>>))

(***************************************************************************)
(* Balance Aggregator: the body of the loop over groupedRecords.           *)
(***************************************************************************)
\* tax = t.taxes && t.taxes[0]: <<>> for undefined, <<tax>> otherwise.
FirstTax(t) == IF Len(t.taxes) > 0 THEN <<t.taxes[1]>> ELSE <<>>

\* The reduce callback of the receivables sum.
AddAmount(sum, t) == sum + t.grossAmount

RECURSIVE SumAmounts(_, _, _)
SumAmounts(d, txs, sum) ==
  IF txs = <<>> THEN sum
  ELSE SumAmounts(d, Tail(txs), AddAmount(sum, d[Head(txs)]))

Receivables(d, record) ==
  LET IsRecv(n) == d[n].debitedAccount.type = "Receivables"
  IN round(SumAmounts(d, SelectSeq(record.transactions, IsRecv), 0))

HasVatType(vti, key) == \E n \in 1..Len(vti) : vti[n].key = key

\* vatTypesInfo[key] = tax ? { key, type, percent } : { key }, when absent.
RegisterVatType(vti, key, tax) ==
  IF HasVatType(vti, key) THEN vti
  ELSE Append(vti, IF tax # <<>>
                   THEN [key |-> key, type |-> tax[1].type,
                         percent |-> tax[1].percent]
                   ELSE [key |-> key])

\* The accumulation with every amount rounded before it is added.
AddLiabilityRounded(info, key, amount) ==
  LET withKey == [k \in DOMAIN info \cup {key} |->
                    IF k = key
                    THEN (IF key \in DOMAIN info THEN info[key] ELSE 0)
                           + round(amount)
                    ELSE info[k]]
  IN [withKey EXCEPT !["total"] = @ + round(amount)]

\* info[key] = (info[key] || 0) + amount; info.total = info.total + amount.
AddLiability(info, key, amount) ==
  LET withKey == [k \in DOMAIN info \cup {key} |->
                    IF k = key
                    THEN (IF key \in DOMAIN info THEN info[key] ELSE 0)
                           + amount
                    ELSE info[k]]
  IN [withKey EXCEPT !["total"] = @ + amount]

\* The reduce callback of the liabilities breakdown; acc carries info and
\* the registry vatTypesInfo the callback writes to.
LiabilityReducer(acc, t) ==
  LET tax == FirstTax(t)
      key == getVatTypeKey(tax)
      amount == t.grossAmount
  IN [info |-> AddLiability(acc.info, key, amount),
      vatTypesInfo |-> RegisterVatType(acc.vatTypesInfo, key, tax)]

RECURSIVE ReduceLiabilities(_, _, _)
ReduceLiabilities(d, txs, acc) ==
  IF txs = <<>> THEN acc
  ELSE ReduceLiabilities(d, Tail(txs), LiabilityReducer(acc, d[Head(txs)]))

Liabilities(d, record, vti) ==
  LET IsLiab(n) == d[n].creditedAccount.type = "Liabilities"
  IN ReduceLiabilities(d, SelectSeq(record.transactions, IsLiab),
       [info |-> [k \in {"total"} |-> 0], vatTypesInfo |-> vti])

\* if (receivables || round(liabilities.total))
Retained(receivables, info) == receivables # 0 \/ round(info.total) # 0

\* record.liabilities[key] = round(liabilities[key]) for every key.
StoredLiabilities(info) == [k \in DOMAIN info |-> round(info[k])]

\* The grand totals with each key assigned instead of accumulated.
AddTotalsOverwrite(tot, receivables, stored) ==
  [receivables |-> tot.receivables + receivables,
   liabilities |->
     [k \in DOMAIN tot.liabilities \cup DOMAIN stored |->
        IF k \in DOMAIN stored THEN stored[k] ELSE tot.liabilities[k]]]

\* totals.liabilities[key] = (totals.liabilities[key] || 0) + amount.
AddTotals(tot, receivables, stored) ==
  [receivables |-> tot.receivables + receivables,
   liabilities |->
     [k \in DOMAIN tot.liabilities \cup DOMAIN stored |->
        (IF k \in DOMAIN tot.liabilities THEN tot.liabilities[k] ELSE 0)
        + (IF k \in DOMAIN stored THEN stored[k] ELSE 0)]]

InitialTotals == [receivables |-> 0, liabilities |-> [k \in {"total"} |-> 0]]

InitialAggregate(grouped) ==
  [groupedRecords |-> grouped, vatTypesInfo |-> <<>>, guestRecords |-> <<>>,
   externalRecords |-> <<>>, totals |-> InitialTotals]

\* One iteration of the loop, for the record at position n.
LoopBody(d, st, n) ==
  LET record == st.groupedRecords[n]
      receivables == Receivables(d, record)
      liab == Liabilities(d, record, st.vatTypesInfo)
      stored == StoredLiabilities(liab.info)
      updated == [record EXCEPT !.receivables = receivables,
                                !.liabilities = stored]
  IN IF Retained(receivables, liab.info)
     THEN [groupedRecords |-> [st.groupedRecords EXCEPT ![n] = updated],
           vatTypesInfo |-> liab.vatTypesInfo,
           guestRecords |-> IF record.type = "Guest"
                            THEN Append(st.guestRecords, updated)
                            ELSE st.guestRecords,
           externalRecords |-> IF record.type = "Guest"
                               THEN st.externalRecords
                               ELSE Append(st.externalRecords, updated),
           totals |-> AddTotals(st.totals, receivables, stored)]
     ELSE [st EXCEPT !.vatTypesInfo = liab.vatTypesInfo]

RECURSIVE Loop(_, _, _)
Loop(d, st, n) ==
  IF n > Len(st.groupedRecords) THEN st ELSE Loop(d, LoopBody(d, st, n), n + 1)

(***************************************************************************)
(* Column derivation and table assembly.                                   *)
(***************************************************************************)
\* percent || 0
PercentOrZero(vat) == IF "percent" \in DOMAIN vat THEN vat.percent ELSE 0

\* vat.type as a condition
HasType(vat) == "type" \in DOMAIN vat /\ vat.type # ""

DisplayName(vat) ==
  IF HasType(vat)
  THEN "Liab. " \o vat.type \o " " \o ToString(PercentOrZero(vat)) \o "%"
  ELSE "Liab. " \o vat.key

\* The sort with the comparator reversed, (b.percent||0) - (a.percent||0).
SortByPercentDescending(s) ==
  LET N == Len(s)
      Before(q, p) ==
        \/ PercentOrZero(s[q]) > PercentOrZero(s[p])
        \/ PercentOrZero(s[q]) = PercentOrZero(s[p]) /\ q < p
      Pos(p) == 1 + Cardinality({q \in 1..N : Before(q, p)})
  IN [n \in 1..N |-> s[CHOOSE p \in 1..N : Pos(p) = n]]

\* Array.prototype.sort with the comparator (a.percent||0) - (b.percent||0);
\* the sort is stable (ECMAScript 2019).
SortByPercent(s) ==
  LET N == Len(s)
      Before(q, p) ==
        \/ PercentOrZero(s[q]) < PercentOrZero(s[p])
        \/ PercentOrZero(s[q]) = PercentOrZero(s[p]) /\ q < p
      Pos(p) == 1 + Cardinality({q \in 1..N : Before(q, p)})
  IN [n \in 1..N |-> s[CHOOSE p \in 1..N : Pos(p) = n]]

LiabilitiesColumns(vti, tot) ==
  LET usedVatTypes == DOMAIN tot.liabilities
      IsUsed(type) == type.key \in usedVatTypes
      sorted == SortByPercent(SelectSeq(vti, IsUsed))
  IN [n \in 1..Len(sorted) |->
        [displayName |-> DisplayName(sorted[n]), key |-> sorted[n].key]]

\* r.liabilities[c.key] || 0
LiabilityCell(r, key) ==
  IF key \in DOMAIN r.liabilities THEN r.liabilities[key] ELSE 0

Row(r, columns) ==
  <<createHyperLinkForRecord(property, r), Field(r, "arrival"),
    Field(r, "departure"), Field(r, "status"), r.receivables,
    r.liabilities["total"]>>
  \o [n \in 1..Len(columns) |-> LiabilityCell(r, columns[n].key)]

Rows(guests, externals, columns) ==
  LET all == guests \o externals
  IN [n \in 1..Len(all) |-> Row(all[n], columns)]

TotalRow(tot, columns) ==
  <<"", "", "", "Total", round(tot.receivables),
    round(tot.liabilities["total"])>>
  \o [n \in 1..Len(columns) |-> round(tot.liabilities[columns[n].key])]

HeaderRow(columns) ==
  <<"Reservation ID", "Arrival", "Departure", "Status", "Receivables",
    "Liabilities">>
  \o [n \in 1..Len(columns) |-> columns[n].displayName]

(***************************************************************************)
(* The rendering surface: the active sheet as the sequence of its rows,    *)
(* a blank row being <<>>.                                                 *)
(***************************************************************************)
Max(a, b) == IF a >= b THEN a ELSE b

\* getRange(start, 1, Len(rs), width).setValues(rs)
SetValues(s, start, rs) ==
  [k \in 1..Max(Len(s), start + Len(rs) - 1) |->
     IF k >= start /\ k < start + Len(rs) THEN rs[k - start + 1]
     ELSE IF k <= Len(s) THEN s[k] ELSE <<>>]

\* getLastRow: the last row that has content, 0 on an empty sheet.
LastRow(s) ==
  IF \E k \in 1..Len(s) : s[k] # <<>>
  THEN CHOOSE k \in 1..Len(s) :
         s[k] # <<>> /\ \A m \in (k + 1)..Len(s) : s[m] = <<>>
  ELSE 0

AppendRow(s, row) == SetValues(s, LastRow(s) + 1, <<row>>)

Title == "Open Receivables & Liabilities Report"

Subtitle ==
  "for property " \o property \o " from " \o startDate \o " to " \o endDate

Summary(nTransactions, nRows, nGuests, nExternals) ==
  ToString(nTransactions)
    \o " Transactions processed. Number of records with the open balance: "
    \o "total - " \o ToString(nRows)
    \o ", reservations - " \o ToString(nGuests)
    \o ", external folios - " \o ToString(nExternals)

\* The writes with appendRow(totalRow) left out.
RenderSheetNoTotals(txs, guests, externals, columns, rs, tRow) ==
  LET cleared == <<>>
      titled == SetValues(cleared, 1, <<(<<Title>>)>>)
      headed == SetValues(titled, 4, <<HeaderRow(columns)>>)
      body == IF Len(rs) # 0 THEN SetValues(headed, 5, rs) ELSE headed
      subtitled == SetValues(body, 2, <<(<<Subtitle>>)>>)
      spaced == AppendRow(subtitled, <<" ">>)
  IN AppendRow(spaced,
       <<Summary(Len(txs), Len(rs), Len(guests), Len(externals))>>)

\* The writes of generateORLReport after clear(), in program order.
RenderSheet(txs, guests, externals, columns, rs, tRow) ==
  LET cleared == <<>>
      titled == SetValues(cleared, 1, <<(<<Title>>)>>)
      headed == SetValues(titled, 4, <<HeaderRow(columns)>>)
      body == IF Len(rs) # 0
              THEN AppendRow(SetValues(headed, 5, rs), tRow)
              ELSE headed
      subtitled == SetValues(body, 2, <<(<<Subtitle>>)>>)
      spaced == AppendRow(subtitled, <<" ">>)
  IN AppendRow(spaced,
       <<Summary(Len(txs), Len(rs), Len(guests), Len(externals))>>)

(***************************************************************************)
(* Input domains: the lists the data source returns.                       *)
(***************************************************************************)
RefTypes == {"Guest", "External"}

VatA == TaxEntry("A", 10)
VatB == TaxEntry("B", 10)
VatWithout == TaxEntry("Without", 0)

\* Grouping: three grouping keys, two of them integer-like, transactions
\* that do or do not count as receivables, and one of another reference type.
GroupTx ==
  {RefTx(rt, id, debit, "Revenues", 1000, <<>>) :
     rt \in RefTypes, id \in {"R1", "7", "42"},
     debit \in {"Receivables", "Payments"}}
  \cup {PropertyTx("Receivables", "Revenues", 1000, <<>>)}

\* VAT categories: a reservation and an external folio, receivables and
\* liabilities of either sign, untaxed (no tax entry or an entry of type
\* Without) or taxed at one of two types of the same rate.
VatTx ==
  {RefTx(rt, IF rt = "Guest" THEN "R1" ELSE "EXT1",
         "Receivables", "Revenues", amount, <<>>) :
     rt \in RefTypes, amount \in {50000, -50000}}
  \cup
  {RefTx(rt, IF rt = "Guest" THEN "R1" ELSE "EXT1",
         "Payments", "Liabilities", amount, taxes) :
     rt \in RefTypes, amount \in {50000, -50000},
     taxes \in {<<>>, <<VatWithout>>, <<VatA>>, <<VatB>>}}

\* Rounding: amounts with a third decimal, of either sign.
RoundTx ==
  {RefTx(rt, IF rt = "Guest" THEN "R1" ELSE "EXT1",
         "Receivables", "Revenues", amount, <<>>) :
     rt \in RefTypes, amount \in {333, 334, -334}}
  \cup
  {RefTx(rt, IF rt = "Guest" THEN "R1" ELSE "EXT1",
         "Payments", "Liabilities", amount, taxes) :
     rt \in RefTypes, amount \in {333, 334, -334},
     taxes \in {<<>>, <<VatA>>}}

\* The end-to-end example of the specification, and its neighbours.
ExampleData ==
  <<GuestTx("R1", "Receivables", "Revenues", 100000, <<>>),
    GuestTx("R1", "Payments", "Liabilities", 50000, <<VatA>>),
    ExternalTx("EXT1", "Payments", "Liabilities", 20000, <<>>)>>

ExampleTx ==
  Range(ExampleData)
  \cup {ExternalTx("EXT1", "Payments", "Liabilities", 20000, <<VatWithout>>),
        PropertyTx("Receivables", "Revenues", 100000, <<>>)}

(***************************************************************************)
(* The state machine: one invocation of generateORLReport.                 *)
(***************************************************************************)
Start(inputs) ==
  /\ data \in inputs
  /\ pc = "group"
  /\ transactions = <<>>
  /\ groupedRecords = <<>>
  /\ i = 1
  /\ vatTypesInfo = <<>>
  /\ guestRecords = <<>>
  /\ externalRecords = <<>>
  /\ totals = InitialTotals
  /\ liabilitiesColumns = <<>>
  /\ rows = <<>>
  /\ totalRow = <<>>
  /\ sheet = <<>>

Init == Start(BoundedSeq(GroupTx))
InitVat == Start(BoundedSeq(VatTx))
InitRound == Start(BoundedSeq(RoundTx))
InitExample == Start(BoundedSeq(ExampleTx))

\* Lines 27-54: fetch, filter, group.
GroupTransactions ==
  /\ pc = "group"
  /\ transactions' = FilterTransactions(data)
  /\ groupedRecords' = GroupRecords(data)
  /\ pc' = "aggregate"
  /\ UNCHANGED <<data, i, vatTypesInfo, guestRecords, externalRecords,
                 totals, liabilitiesColumns, rows, totalRow, sheet>>

\* Lines 68-114: one iteration of the loop over groupedRecords.
AggregateRecord ==
  /\ pc = "aggregate"
  /\ i <= Len(groupedRecords)
  /\ LET st == LoopBody(data,
                 [groupedRecords |-> groupedRecords,
                  vatTypesInfo |-> vatTypesInfo,
                  guestRecords |-> guestRecords,
                  externalRecords |-> externalRecords,
                  totals |-> totals], i)
     IN /\ groupedRecords' = st.groupedRecords
        /\ vatTypesInfo' = st.vatTypesInfo
        /\ guestRecords' = st.guestRecords
        /\ externalRecords' = st.externalRecords
        /\ totals' = st.totals
  /\ i' = i + 1
  /\ UNCHANGED <<data, pc, transactions, liabilitiesColumns, rows, totalRow,
                 sheet>>

\* Lines 116-145: columns, rows and the totals row.
AssembleTable ==
  /\ pc = "aggregate"
  /\ i > Len(groupedRecords)
  /\ liabilitiesColumns' = LiabilitiesColumns(vatTypesInfo, totals)
  /\ rows' = Rows(guestRecords, externalRecords, liabilitiesColumns')
  /\ totalRow' = TotalRow(totals, liabilitiesColumns')
  /\ pc' = "write"
  /\ UNCHANGED <<data, transactions, groupedRecords, i, vatTypesInfo,
                 guestRecords, externalRecords, totals, sheet>>

\* Lines 151-196: the writes to the sheet.
WriteSheet ==
  /\ pc = "write"
  /\ sheet' = RenderSheet(transactions, guestRecords, externalRecords,
                          liabilitiesColumns, rows, totalRow)
  /\ pc' = "done"
  /\ UNCHANGED <<data, transactions, groupedRecords, i, vatTypesInfo,
                 guestRecords, externalRecords, totals, liabilitiesColumns,
                 rows, totalRow>>

Next == GroupTransactions \/ AggregateRecord \/ AssembleTable \/ WriteSheet

Spec == Init /\ [][Next]_vars
SpecVat == InitVat /\ [][Next]_vars
SpecRound == InitRound /\ [][Next]_vars
SpecExample == InitExample /\ [][Next]_vars

(***************************************************************************)
(* The report as a function of the transaction list (lines 27-145), and    *)
(* notions the properties below are stated with.                           *)
(***************************************************************************)
Report(d) ==
  LET st == Loop(d, InitialAggregate(GroupRecords(d)), 1)
      columns == LiabilitiesColumns(st.vatTypesInfo, st.totals)
  IN [columns |-> columns,
      rows |-> Rows(st.guestRecords, st.externalRecords, columns),
      totalRow |-> TotalRow(st.totals, columns)]

\* The records behind the data rows, in row order.
OutputRecords == guestRecords \o externalRecords

\* The exact sum of the gross amounts of the transactions at positions S.
RECURSIVE ExactSum(_, _)
ExactSum(d, S) ==
  IF S = {} THEN 0
  ELSE LET n == CHOOSE m \in S : TRUE
       IN d[n].grossAmount + ExactSum(d, S \ {n})

ReceivablePositions(d, record) ==
  {n \in Range(record.transactions) :
     d[n].debitedAccount.type = "Receivables"}

LiabilityPositions(d, record) ==
  {n \in Range(record.transactions) :
     d[n].creditedAccount.type = "Liabilities"}

KeyPositions(d, record, key) ==
  {n \in LiabilityPositions(d, record) : getVatTypeKey(FirstTax(d[n])) = key}

\* The VAT keys under which the record has liabilities.
RecordKeys(d, record) ==
  {getVatTypeKey(FirstTax(d[n])) : n \in LiabilityPositions(d, record)}

\* A record the retention rule discards: both rounded totals are zero.
ZeroBalance(d, record) ==
  /\ round(ExactSum(d, ReceivablePositions(d, record))) = 0
  /\ round(ExactSum(d, LiabilityPositions(d, record))) = 0

\* The transaction list without the transactions of the record.
WithoutRecord(d, record) ==
  LET Other(n) == n \notin Range(record.transactions)
      kept == SelectSeq(Positions(d), Other)
  IN [n \in 1..Len(kept) |-> d[kept[n]]]

RECURSIVE SumCells(_, _)
SumCells(rs, col) ==
  IF rs = <<>> THEN 0 ELSE Head(rs)[col] + SumCells(Tail(rs), col)

IsTotalsRow(r) == Len(r) >= 6 /\ r[4] = "Total"

TotalsRowsWritten == {k \in 1..Len(sheet) : IsTotalsRow(sheet[k])}

(***************************************************************************)
(* Properties.                                                             *)
(***************************************************************************)

\* C1: a VAT key is a visible liability column iff at least one surviving
\* record has a non-zero rounded amount under that key, and each such key
\* is exactly one column.
C1_ColumnIffNonZeroAmount ==
  pc = "done" =>
    /\ \A p, q \in 1..Len(liabilitiesColumns) :
         p # q => liabilitiesColumns[p].key # liabilitiesColumns[q].key
    /\ \A key \in {vatTypesInfo[n].key : n \in 1..Len(vatTypesInfo)} :
         (\E c \in 1..Len(liabilitiesColumns) :
            liabilitiesColumns[c].key = key)
         <=> (\E n \in 1..Len(OutputRecords) :
                /\ key \in DOMAIN OutputRecords[n].liabilities
                /\ OutputRecords[n].liabilities[key] # 0)

\* C2, as stated: the end-to-end example yields 2 data rows (R1, EXT1), the
\* single VAT column 'Liab. A 10%', amounts [100.00, 50.00, 50.00] and
\* [0.00, 20.00, 0.00], and totals ['', '', '', 'Total', 100.00, 70.00, 50.00].
C2_ExampleAsStated ==
  (pc = "done" /\ data = ExampleData) =>
    /\ Len(rows) = 2
    /\ rows[1][1] = createHyperLinkForRecord(property, guestRecords[1])
    /\ rows[2][1] = createHyperLinkForRecord(property, externalRecords[1])
    /\ [n \in 1..Len(liabilitiesColumns) |->
          liabilitiesColumns[n].displayName] = <<"Liab. A 10%">>
    /\ SubSeq(rows[1], 5, Len(rows[1])) = <<100000, 50000, 50000>>
    /\ SubSeq(rows[2], 5, Len(rows[2])) = <<0, 20000, 0>>
    /\ totalRow = <<"", "", "", "Total", 100000, 70000, 50000>>

\* C2, amended: the end-to-end example yields 2 data rows (R1, EXT1) and two
\* VAT columns, 'Liab. Without' then 'Liab. A 10%'; the R1 amounts are
\* [100.00, 50.00, 0.00, 50.00], the EXT1 amounts [0.00, 20.00, 20.00, 0.00]
\* and the totals ['', '', '', 'Total', 100.00, 70.00, 20.00, 50.00].
C2_ExampleAmended ==
  (pc = "done" /\ data = ExampleData) =>
    /\ Len(rows) = 2
    /\ guestRecords[1].id = "R1"
    /\ externalRecords[1].id = "EXT1"
    /\ rows[1][1] = createHyperLinkForRecord(property, guestRecords[1])
    /\ rows[2][1] = createHyperLinkForRecord(property, externalRecords[1])
    /\ [n \in 1..Len(liabilitiesColumns) |->
          liabilitiesColumns[n].displayName]
         = <<"Liab. Without", "Liab. A 10%">>
    /\ SubSeq(rows[1], 5, Len(rows[1])) = <<100000, 50000, 0, 50000>>
    /\ SubSeq(rows[2], 5, Len(rows[2])) = <<0, 20000, 20000, 0>>
    /\ totalRow = <<"", "", "", "Total", 100000, 70000, 20000, 50000>>

C2_Witness ==
  /\ pc = "done"
  /\ data = ExampleData
  /\ Len(rows) = 2
  /\ Len(liabilitiesColumns) = 2

\* C3: a record whose rounded receivables and rounded liabilities total are
\* both zero has no effect on the report: the visible VAT columns, the data
\* rows and the totals row are those of the same transaction list with that
\* record's transactions removed.
C3_ZeroBalanceRecordHasNoEffect ==
  pc = "done" =>
    \A n \in 1..Len(groupedRecords) :
      ZeroBalance(data, groupedRecords[n]) =>
        Report(WithoutRecord(data, groupedRecords[n]))
          = [columns |-> liabilitiesColumns, rows |-> rows,
             totalRow |-> totalRow]

\* C4, as stated: every completed invocation writes exactly one totals row,
\* right after the data rows, also when no record survives.
C4_TotalsRowAlwaysWritten ==
  pc = "done" =>
    /\ Cardinality(TotalsRowsWritten) = 1
    /\ TotalsRowsWritten = {5 + Len(rows)}

\* C4, amended: a completed invocation with at least one surviving record
\* writes the data rows from row 5 and exactly one totals row right after
\* them; with no surviving record it writes no totals row.
C4_TotalsRowIffRows ==
  pc = "done" =>
    IF Len(rows) > 0
    THEN /\ \A n \in 1..Len(rows) : sheet[4 + n] = rows[n]
         /\ TotalsRowsWritten = {5 + Len(rows)}
         /\ sheet[5 + Len(rows)] = totalRow
         /\ totalRow[1] = "" /\ totalRow[2] = "" /\ totalRow[3] = ""
    ELSE TotalsRowsWritten = {}

C4_Witness ==
  /\ pc = "done"
  /\ Len(rows) > 0
  /\ sheet[5 + Len(rows)] = totalRow

\* C5: the receivables amount, the liabilities total and every visible VAT
\* column total of the totals row equal the sum of that column's cells over
\* all data rows, Guest and External together.
C5_TotalsAreColumnSums ==
  pc \in {"write", "done"} =>
    /\ Len(totalRow) = 6 + Len(liabilitiesColumns)
    /\ \A col \in 5..Len(totalRow) : totalRow[col] = SumCells(rows, col)

C5_Witness ==
  /\ pc = "done"
  /\ Len(guestRecords) > 0
  /\ Len(externalRecords) > 0
  /\ Len(liabilitiesColumns) > 0
  /\ \A n \in 1..Len(rows) : rows[n][7] # 0
  /\ totalRow[5] # 0

\* C6: grouping is a partition of the Guest and External transactions:
\* each lands in exactly one record and no other transaction lands in any;
\* Guest transactions of one reservation share a record; External
\* transactions share a record iff their references are identical; a record
\* exists for a grouping key iff a transaction maps to it; a record's
\* transactions are in input order.
C6_GroupingIsPartition ==
  pc # "group" =>
    LET N == Len(groupedRecords)
        Holds(n, idx) == idx \in Range(groupedRecords[n].transactions)
    IN /\ \A idx \in 1..Len(data) :
            Cardinality({n \in 1..N : Holds(n, idx)})
              = IF IsReported(data[idx]) THEN 1 ELSE 0
       /\ \A n \in 1..N :
            LET txs == groupedRecords[n].transactions
            IN /\ Len(txs) > 0
               /\ \A p, q \in 1..Len(txs) : p < q => txs[p] < txs[q]
               /\ \A p \in 1..Len(txs) :
                    getRecordId(data[txs[p]]) = groupedRecords[n].id
       /\ \A n, m \in 1..N :
            n # m => groupedRecords[n].id # groupedRecords[m].id
       /\ \A a, b \in 1..Len(data) :
            /\ (/\ data[a].referenceType = "Guest"
                /\ data[b].referenceType = "Guest"
                /\ data[a].reservation[1].id = data[b].reservation[1].id)
               => \E n \in 1..N : Holds(n, a) /\ Holds(n, b)
            /\ (/\ data[a].referenceType = "External"
                /\ data[b].referenceType = "External")
               => ((\E n \in 1..N : Holds(n, a) /\ Holds(n, b))
                   <=> data[a].reference = data[b].reference)

\* Two External transactions of one reference grouped around a transaction
\* of another record.
C6_Witness ==
  /\ pc = "aggregate"
  /\ Len(groupedRecords) = 2
  /\ \E n \in 1..Len(groupedRecords) :
       /\ groupedRecords[n].transactions = <<1, 3>>
       /\ data[1].referenceType = "External"
       /\ data[3].referenceType = "External"

\* C7: the data rows are the surviving Guest records followed by the
\* surviving External records, each bucket ordered by the input position of
\* the first transaction of its grouping key.
C7_RowsInFirstSeenOrder ==
  pc = "done" =>
    /\ Len(rows) = Len(OutputRecords)
    /\ \A p \in 1..Len(rows) :
         rows[p][1] = createHyperLinkForRecord(property, OutputRecords[p])
    /\ \A p, q \in 1..Len(OutputRecords) :
         p < q =>
           /\ OutputRecords[p].type = "Guest"
                \/ OutputRecords[q].type = "External"
           /\ OutputRecords[p].type = OutputRecords[q].type
                => OutputRecords[p].transactions[1]
                     < OutputRecords[q].transactions[1]

\* The tax entries that head a transaction's tax list.
TaxEntries(d) ==
  {d[n].taxes[1] : n \in {m \in 1..Len(d) : Len(d[m].taxes) > 0}}

\* The tax percentage of a VAT category, 0 for the untaxed category.
CategoryPercent(d, key) ==
  IF key = "Without" THEN 0
  ELSE (CHOOSE tax \in TaxEntries(d) : getVatTypeKey(<<tax>>) = key).percent

CategoryLabel(d, key) ==
  IF key = "Without" THEN "Liab. Without"
  ELSE LET tax == CHOOSE t \in TaxEntries(d) : getVatTypeKey(<<t>>) = key
       IN "Liab. " \o tax.type \o " " \o ToString(tax.percent) \o "%"

\* The position at which the aggregation pass first saw the key.
Discovery(key) ==
  CHOOSE n \in 1..Len(vatTypesInfo) : vatTypesInfo[n].key = key

\* C8: the visible VAT columns are sorted by ascending tax percentage, the
\* untaxed category weighing 0; columns of equal percentage keep their
\* discovery order; a column is labelled 'Liab. {type} {percent}%', and
\* 'Liab. {key}' for the untaxed category.
C8_ColumnsSortedAndLabelled ==
  pc = "done" =>
    /\ \A p, q \in 1..Len(liabilitiesColumns) :
         p < q =>
           LET wp == CategoryPercent(data, liabilitiesColumns[p].key)
               wq == CategoryPercent(data, liabilitiesColumns[q].key)
           IN \/ wp < wq
              \/ /\ wp = wq
                 /\ Discovery(liabilitiesColumns[p].key)
                      < Discovery(liabilitiesColumns[q].key)
    /\ \A p \in 1..Len(liabilitiesColumns) :
         liabilitiesColumns[p].displayName
           = CategoryLabel(data, liabilitiesColumns[p].key)

\* The loop has processed the record at position n of groupedRecords.
Processed(n) == pc \in {"write", "done"} \/ (pc = "aggregate" /\ n < i)

\* C9: the receivables, the liabilities total and every per-VAT-key
\* liability stored on a record equal the exact sum of the contributing
\* gross amounts rounded once to 2 decimals, half up.
C9_StoredAmountsRoundedOnce ==
  \A n \in 1..Len(groupedRecords) :
    Processed(n) =>
      LET record == groupedRecords[n]
      IN /\ record.receivables
              = round(ExactSum(data, ReceivablePositions(data, record)))
         /\ record.liabilities["total"]
              = round(ExactSum(data, LiabilityPositions(data, record)))
         /\ \A key \in DOMAIN record.liabilities \ {"total"} :
              record.liabilities[key]
                = round(ExactSum(data, KeyPositions(data, record, key)))
         /\ ~ZeroBalance(data, record) =>
              /\ DOMAIN record.liabilities
                   = {"total"} \cup RecordKeys(data, record)
              /\ record \in Range(OutputRecords)

\* Liabilities of 0.333, 0.334 and 0.333 under one key are stored as 1.00.
C9_Witness ==
  /\ pc = "done"
  /\ \E n \in 1..Len(groupedRecords) :
       LET S == KeyPositions(data, groupedRecords[n], "A-10")
       IN /\ Cardinality(S) = 3
          /\ ExactSum(data, S) = 1000
          /\ groupedRecords[n].liabilities["A-10"] = 1000

\* C10: every transaction of a record has the record's kind as its
\* reference type.
C10_RecordsHomogeneous ==
  \A n \in 1..Len(groupedRecords) :
    \A idx \in Range(groupedRecords[n].transactions) :
      data[idx].referenceType = groupedRecords[n].type

====
